---- MODULE Spec2Model ----
(***************************************************************************)
(* Model of create_workout_plan (src/src/workout_planner_tool.py).         *)
(*                                                                         *)
(* A text is a sequence of fragments.  A string literal of the source is   *)
(* one fragment (split in two where a property looks at its prefix), a     *)
(* formatted number is one fragment, a newline is the fragment NL, and the *)
(* free-form goal contributes one fragment per character, because the code *)
(* lower-cases it and searches it for substrings.                          *)
(***************************************************************************)
EXTENDS Integers, Sequences, FiniteSets, TLC

VARIABLES frame, rng

vars == <<frame, rng>>

(***************************************************************************)
(* Bounds of the model.                                                    *)
(***************************************************************************)
\* number of values the process-wide random generator's state can take
RngMod == 64
\* the generator starts in one of the states 0 .. MaxSeed-1
MaxSeed == 4

Callers == {1, 2}

NL == "\n"

Min(a, b) == IF a < b THEN a ELSE b

RECURSIVE Flatten(_)
Flatten(ss) == IF ss = <<>> THEN <<>> ELSE Head(ss) \o Flatten(Tail(ss))

(***************************************************************************)
(* The catalogs, lines 74-96.                                              *)
(***************************************************************************)
Exercises ==
  [ beginner |->
      ("full gym" :> <<"Leg press", "Chest press machine", "Treadmill", "Seated cable rows", "Machine shoulder press">>)
   @@ ("basic dumbbells" :> <<"Dumbbell squats", "Dumbbell bench press", "Dumbbell rows", "Dumbbell lunges", "Dumbbell curls">>)
   @@ ("no equipment" :> <<"Bodyweight squats", "Push-ups", "Walking lunges", "Plank", "Mountain climbers">>),
    intermediate |->
      ("full gym" :> <<"Barbell squats", "Bench press", "Lat pulldowns", "Romanian deadlifts", "Cable face pulls">>)
   @@ ("basic dumbbells" :> <<"Dumbbell lunges", "Dumbbell overhead press", "Dumbbell deadlifts", "Dumbbell flyes", "Dumbbell renegade rows">>)
   @@ ("no equipment" :> <<"Jump squats", "Diamond push-ups", "Burpees", "Superman holds", "Mountain climbers">>),
    advanced |->
      ("full gym" :> <<"Deadlifts", "Weighted pull-ups", "Barbell rows", "Front squats", "Overhead press">>)
   @@ ("basic dumbbells" :> <<"Dumbbell clean and press", "Renegade rows", "Bulgarian split squats", "Single-leg Romanian deadlifts", "Dumbbell thrusters">>)
   @@ ("no equipment" :> <<"Pistol squats", "One-arm push-ups", "Muscle-ups", "Plyometric lunges", "L-sit holds">>) ]

BodyWeightExercises ==
  [ beginner |-> <<"Bodyweight squats", "Push-ups", "Lunges", "Plank", "Mountain climbers", "Bird dogs", "Glute bridges">>,
    intermediate |-> <<"Jump squats", "Diamond push-ups", "Burpees", "Spider-man push-ups", "V-ups", "Box jumps", "Flutter kicks">>,
    advanced |-> <<"Pistol squats", "One-arm push-ups", "Plyometric lunges", "Handstand push-ups", "L-sit holds", "Muscle-ups", "Planche progressions">> ]

\* the list literal of line 104
EquipmentOptions == {"full gym", "basic dumbbells", "no equipment"}

\* line 101
MinDays == 1
MaxDays == 7
\* line 127
SampleSize == 5

(***************************************************************************)
(* The requests the model draws: every field takes its valid values and    *)
(* values that fail its check.  duration is Optional[int]: <<>> is None,   *)
(* <<n>> is the integer n.                                                 *)
(***************************************************************************)
FitnessLevels == {"beginner", "intermediate", "advanced", "expert"}
DayCounts == (MinDays - 1) .. (MaxDays + 1)
EquipmentValues == EquipmentOptions \cup {"home gym"}
Goals == { <<"w","e","i","g","h","t">>,
           <<"M","u","S","c","L","e">>,
           <<"L","o","s","e"," ","W","E","I","G","H","T">>,
           <<"w","e","i","g","h">>,
           <<"c","a","r","d","i","o">>,
           <<>> }
Durations == { <<>>, <<0>>, <<45>>, <<-5>> }

Requests ==
  [ fitness_level : FitnessLevels, goal : Goals, days_per_week : DayCounts,
    equipment : EquipmentValues, body_weight_only : BOOLEAN, duration : Durations ]

(***************************************************************************)
(* str.lower() and the substring test of line 129.                         *)
(***************************************************************************)
LowerChar(ch) ==
  CASE ch = "W" -> "w" [] ch = "E" -> "e" [] ch = "I" -> "i" [] ch = "G" -> "g"
    [] ch = "H" -> "h" [] ch = "T" -> "t" [] ch = "M" -> "m" [] ch = "U" -> "u"
    [] ch = "S" -> "s" [] ch = "C" -> "c" [] ch = "L" -> "l" [] ch = "O" -> "o"
    [] OTHER -> ch

Lower(s) == [i \in 1..Len(s) |-> LowerChar(s[i])]

Contains(s, sub) ==
  \E i \in 0..(Len(s) - Len(sub)) : \A j \in 1..Len(sub) : s[i + j] = sub[j]

\* the substring test without goal.lower()
Reps_CaseSensitive(goal) ==
  IF Contains(goal, <<"w","e","i","g","h","t">>) \/ Contains(goal, <<"m","u","s","c","l","e">>)
  THEN "10-15 reps" ELSE "30-60 seconds"

Reps(goal) ==
  IF Contains(Lower(goal), <<"w","e","i","g","h","t">>)
       \/ Contains(Lower(goal), <<"m","u","s","c","l","e">>)
  THEN "10-15 reps" ELSE "30-60 seconds"

(***************************************************************************)
(* Validation, lines 98-105: the message returned, <<>> when all pass.     *)
(***************************************************************************)
InvalidFitnessLevel == <<"Invalid", " fitness level. Please choose beginner, intermediate, or advanced.">>
InvalidDayCount == <<"Invalid", " number of days. Please choose between 1 and 7.">>
InvalidEquipment == <<"Invalid", " equipment option. Please choose full gym, basic dumbbells, or no equipment.">>

\* the equipment check moved ahead of the day-count check
ValidationError_EquipmentFirst(exercises, req) ==
  IF req.fitness_level \notin DOMAIN exercises THEN InvalidFitnessLevel
  ELSE IF req.equipment \notin EquipmentOptions THEN InvalidEquipment
  ELSE IF req.days_per_week < MinDays \/ req.days_per_week > MaxDays THEN InvalidDayCount
  ELSE <<>>

\* the lower day bound off by one: `days_per_week < 0`
ValidationError_ZeroDays(exercises, req) ==
  IF req.fitness_level \notin DOMAIN exercises THEN InvalidFitnessLevel
  ELSE IF req.days_per_week < MinDays - 1 \/ req.days_per_week > MaxDays THEN InvalidDayCount
  ELSE IF req.equipment \notin EquipmentOptions THEN InvalidEquipment
  ELSE <<>>

ValidationError(exercises, req) ==
  IF req.fitness_level \notin DOMAIN exercises THEN InvalidFitnessLevel
  ELSE IF req.days_per_week < MinDays \/ req.days_per_week > MaxDays THEN InvalidDayCount
  ELSE IF req.equipment \notin EquipmentOptions THEN InvalidEquipment
  ELSE <<>>

(***************************************************************************)
(* The header, lines 107-108.                                              *)
(***************************************************************************)
\* the header names the equipment whatever body_weight_only says
Header_AlwaysEquipment(req) ==
  <<"Workout", " Plan (", req.fitness_level, " level, ">> \o req.goal
    \o <<" focus, ", ToString(req.days_per_week), " days/week, ", req.equipment,
         "):", NL, NL>>

Header(req) ==
  <<"Workout", " Plan (", req.fitness_level, " level, ">> \o req.goal
    \o <<" focus, ", ToString(req.days_per_week), " days/week, ",
         IF req.body_weight_only THEN "body weight only" ELSE req.equipment,
         "):", NL, NL>>

(***************************************************************************)
(* Pool construction, lines 110-123.  A Python list is a reference: the    *)
(* beginner pool IS the catalog's list, a higher tier's pool is the new    *)
(* list that + builds.  ref names the list the pool refers to, fresh holds *)
(* the new list (<<>> when there is none).                                 *)
(***************************************************************************)
\* each tier gets its own catalog entry only
ExercisePool_TierOnly(exercises, body_weight_exercises, fitness_level, equipment, body_weight_only) ==
  IF body_weight_only
  THEN [ref |-> <<"body_weight_exercises", fitness_level>>, fresh |-> <<>>]
  ELSE [ref |-> <<"exercises", fitness_level, equipment>>, fresh |-> <<>>]

\* the intermediate branch also takes the advanced entry
ExercisePool_IntermediateGetsAdvanced(exercises, body_weight_exercises, fitness_level, equipment, body_weight_only) ==
  IF body_weight_only THEN
    IF fitness_level = "beginner" THEN
      [ref |-> <<"body_weight_exercises", "beginner">>, fresh |-> <<>>]
    ELSE
      [ref |-> <<"fresh">>,
       fresh |-> body_weight_exercises["beginner"] \o body_weight_exercises["intermediate"]
                   \o body_weight_exercises["advanced"]]
  ELSE
    IF fitness_level = "beginner" THEN
      [ref |-> <<"exercises", "beginner", equipment>>, fresh |-> <<>>]
    ELSE
      [ref |-> <<"fresh">>,
       fresh |-> exercises["beginner"][equipment] \o exercises["intermediate"][equipment]
                   \o exercises["advanced"][equipment]]

ExercisePool(exercises, body_weight_exercises, fitness_level, equipment, body_weight_only) ==
  IF body_weight_only THEN
    IF fitness_level = "beginner" THEN
      [ref |-> <<"body_weight_exercises", "beginner">>, fresh |-> <<>>]
    ELSE IF fitness_level = "intermediate" THEN
      [ref |-> <<"fresh">>,
       fresh |-> body_weight_exercises["beginner"] \o body_weight_exercises["intermediate"]]
    ELSE
      [ref |-> <<"fresh">>,
       fresh |-> body_weight_exercises["beginner"] \o body_weight_exercises["intermediate"]
                   \o body_weight_exercises["advanced"]]
  ELSE
    IF fitness_level = "beginner" THEN
      [ref |-> <<"exercises", "beginner", equipment>>, fresh |-> <<>>]
    ELSE IF fitness_level = "intermediate" THEN
      [ref |-> <<"fresh">>,
       fresh |-> exercises["beginner"][equipment] \o exercises["intermediate"][equipment]]
    ELSE
      [ref |-> <<"fresh">>,
       fresh |-> exercises["beginner"][equipment] \o exercises["intermediate"][equipment]
                   \o exercises["advanced"][equipment]]

\* the list a frame's exercise_pool refers to
Deref(f) ==
  IF f.exercise_pool[1] = "fresh" THEN f.fresh
  ELSE IF f.exercise_pool[1] = "exercises"
       THEN f.exercises[f.exercise_pool[2]][f.exercise_pool[3]]
       ELSE f.body_weight_exercises[f.exercise_pool[2]]

\* the frame after the list its exercise_pool refers to has become `list`
Store(f, list) ==
  IF f.exercise_pool[1] = "fresh" THEN [f EXCEPT !.fresh = list]
  ELSE IF f.exercise_pool[1] = "exercises"
       THEN [f EXCEPT !.exercises[f.exercise_pool[2]][f.exercise_pool[3]] = list]
       ELSE [f EXCEPT !.body_weight_exercises[f.exercise_pool[2]] = list]

(***************************************************************************)
(* The process-wide generator behind random.sample, line 127.  Its state   *)
(* is a number below RngMod; a draw below n reads the state and advances   *)
(* it.  The arithmetic stands for the generator's: the properties are      *)
(* stated for whatever it draws, and the seeds vary what it draws.         *)
(***************************************************************************)
RngNext(r) == (r * 5 + 3) % RngMod
RandBelow(r, n) == r % n

(***************************************************************************)
(* random.sample(population, k): k draws of positions without replacement  *)
(* from a copy of the population; the drawn slot of the copy is refilled   *)
(* with its last live slot.  These are the locals of a sample under way.   *)
(***************************************************************************)
NoSample == [pool |-> <<>>, n |-> 0, i |-> 0, k |-> 0, result |-> <<>>]

SampleBegin(population, k) ==
  [pool |-> population, n |-> Len(population), i |-> 0, k |-> k, result |-> <<>>]

\* one draw
SampleDraw(s, r) ==
  LET j == RandBelow(r, s.n - s.i)
  IN [ sample |-> [s EXCEPT !.result = Append(@, s.pool[j + 1]),
                            !.pool[j + 1] = s.pool[s.n - s.i],
                            !.i = @ + 1],
       rng |-> RngNext(r) ]

\* the draws are made on the population itself, not on a copy
PopulationAfter_InPlace(population, s) == s.pool

\* the population once the sample s of it is complete: what it was
PopulationAfter(population, s) == population

(***************************************************************************)
(* One day's section, lines 126-131, and the trailing advisory line,       *)
(* lines 133-134.                                                          *)
(***************************************************************************)
\* the days are numbered from 0
DayHeading_ZeroBased(day) == <<"Day ", ToString(day - 1), ":", NL>>

DayHeading(day) == <<"Day ", ToString(day), ":", NL>>

ExerciseLine(exercise, goal) == <<"- ", exercise, ": 3 sets of ", Reps(goal), NL>>

CoolDown == "- Cool-down: 5-10 minutes of light stretching"

DayBody(daily_exercises, goal) ==
  Flatten([i \in 1..Len(daily_exercises) |-> ExerciseLine(daily_exercises[i], goal)])
    \o <<CoolDown, NL, NL>>

\* `if duration:` is false for None and for 0
Truthy(duration) == duration # <<>> /\ duration[1] # 0

Advisory(duration) ==
  IF Truthy(duration)
  THEN <<"Aim to complete each workout session in about ", ToString(duration[1]), " minutes.", NL>>
  ELSE <<>>

(***************************************************************************)
(* The frame of one call: its position and its local variables.            *)
(***************************************************************************)
NoArgs ==
  [ fitness_level |-> "", goal |-> <<>>, days_per_week |-> 0, equipment |-> "",
    body_weight_only |-> FALSE, duration |-> <<>> ]

IdleFrame ==
  [ pc |-> "idle", args |-> NoArgs, exercises |-> <<>>, body_weight_exercises |-> <<>>,
    exercise_pool |-> <<"unbound">>, fresh |-> <<>>, workout_plan |-> <<>>,
    day |-> 0, sample |-> NoSample, result |-> <<>> ]

\* lines 66-123: the catalogs are built, the request is validated, the header is
\* written and the pool is bound
InvokeStep(req) ==
  LET built == [IdleFrame EXCEPT !.args = req, !.exercises = Exercises,
                                 !.body_weight_exercises = BodyWeightExercises]
      err == ValidationError(built.exercises, req)
      p == ExercisePool(built.exercises, built.body_weight_exercises,
                        req.fitness_level, req.equipment, req.body_weight_only)
  IN IF err # <<>>
     THEN [built EXCEPT !.pc = "done", !.result = err]
     ELSE [built EXCEPT !.pc = "loop", !.workout_plan = Header(req),
                        !.exercise_pool = p.ref, !.fresh = p.fresh, !.day = 1]

\* lines 125-127: a day begins: its heading is written and random.sample is entered
BeginDayStep(f) ==
  [f EXCEPT !.workout_plan = @ \o DayHeading(f.day),
            !.sample = SampleBegin(Deref(f), Min(SampleSize, Len(Deref(f)))),
            !.pc = "sample"]

\* line 127: one draw of the sample under way
DrawStep(f, r) ==
  LET d == SampleDraw(f.sample, r)
  IN [frame |-> [f EXCEPT !.sample = d.sample], rng |-> d.rng]

\* lines 127-131: random.sample returns, the day's lines are written
EndDayStep(f) ==
  [Store(f, PopulationAfter(Deref(f), f.sample)) EXCEPT
     !.workout_plan = @ \o DayBody(f.sample.result, f.args.goal),
     !.sample = NoSample,
     !.day = @ + 1,
     !.pc = "loop"]

\* the advisory line is built but the plan is returned without it
ReturnStep_WithoutAdvisory(f) ==
  [f EXCEPT !.result = f.workout_plan, !.pc = "done"]

\* lines 133-136
ReturnStep(f) ==
  LET plan == f.workout_plan \o Advisory(f.args.duration)
  IN [f EXCEPT !.workout_plan = plan, !.result = plan, !.pc = "done"]

\* the steps from the frame f to the return, the generator in state r
RECURSIVE RunLoop(_, _)
RunLoop(f, r) ==
  IF f.pc = "done" THEN [frame |-> f, rng |-> r]
  ELSE IF f.pc = "sample" THEN
    IF f.sample.i < f.sample.k
    THEN LET d == DrawStep(f, r) IN RunLoop(d.frame, d.rng)
    ELSE RunLoop(EndDayStep(f), r)
  ELSE IF f.day <= f.args.days_per_week THEN RunLoop(BeginDayStep(f), r)
  ELSE RunLoop(ReturnStep(f), r)

\* the whole call, lines 66-136, started with the generator in state r
CreateWorkoutPlan(req, r) == RunLoop(InvokeStep(req), r)

(***************************************************************************)
(* Spec: caller 1 makes one call, run as a whole.                          *)
(***************************************************************************)
Init ==
  /\ frame = [c \in Callers |-> IdleFrame]
  /\ rng \in 0..(MaxSeed - 1)

Call(c) ==
  /\ frame[c].pc = "idle"
  /\ \E req \in Requests :
       LET out == CreateWorkoutPlan(req, rng)
       IN /\ frame' = [frame EXCEPT ![c] = out.frame]
          /\ rng' = out.rng

Next == Call(1)

Spec == Init /\ [][Next]_vars

(***************************************************************************)
(* ConcSpec: the callers run concurrently and in sequence.  A caller can   *)
(* be overtaken between any two draws of the generator, which is all the   *)
(* callers share; a draw itself is atomic.                                 *)
(***************************************************************************)
ConcRequests ==
  [ fitness_level : {"beginner", "intermediate"}, goal : {<<"w","e","i","g","h","t">>},
    days_per_week : {1}, equipment : {"no equipment", "home gym"},
    body_weight_only : BOOLEAN, duration : {<<>>} ]

Invoke(c) ==
  /\ frame[c].pc = "idle"
  /\ \E req \in ConcRequests : frame' = [frame EXCEPT ![c] = InvokeStep(req)]
  /\ UNCHANGED rng

BeginDay(c) ==
  /\ frame[c].pc = "loop"
  /\ frame[c].day <= frame[c].args.days_per_week
  /\ frame' = [frame EXCEPT ![c] = BeginDayStep(frame[c])]
  /\ UNCHANGED rng

Draw(c) ==
  /\ frame[c].pc = "sample"
  /\ frame[c].sample.i < frame[c].sample.k
  /\ LET d == DrawStep(frame[c], rng)
     IN /\ frame' = [frame EXCEPT ![c] = d.frame]
        /\ rng' = d.rng

EndDay(c) ==
  /\ frame[c].pc = "sample"
  /\ frame[c].sample.i = frame[c].sample.k
  /\ frame' = [frame EXCEPT ![c] = EndDayStep(frame[c])]
  /\ UNCHANGED rng

Return(c) ==
  /\ frame[c].pc = "loop"
  /\ frame[c].day > frame[c].args.days_per_week
  /\ frame' = [frame EXCEPT ![c] = ReturnStep(frame[c])]
  /\ UNCHANGED rng

ConcNext ==
  \E c \in Callers : Invoke(c) \/ BeginDay(c) \/ Draw(c) \/ EndDay(c) \/ Return(c)

ConcSpec == Init /\ [][ConcNext]_vars

(***************************************************************************)
(* Reading a returned text: its lines, and the kinds of line of a plan.    *)
(***************************************************************************)
RECURSIVE SplitLines(_)
SplitLines(t) ==
  IF t = <<>> THEN <<>>
  ELSE LET n == CHOOSE i \in 1..(Len(t) + 1) :
                  /\ i = Len(t) + 1 \/ t[i] = NL
                  /\ \A j \in 1..(i - 1) : t[j] # NL
       IN <<SubSeq(t, 1, n - 1)>> \o SplitLines(SubSeq(t, n + 1, Len(t)))

IsDayLine(l) == Len(l) = 3 /\ l[1] = "Day " /\ l[3] = ":"
IsExerciseLine(l) == Len(l) = 4 /\ l[1] = "- " /\ l[3] = ": 3 sets of "
IsCoolDownLine(l) == l = <<"- Cool-down: 5-10 minutes of light stretching">>
IsAdvisoryLine(l) ==
  Len(l) = 3 /\ l[1] = "Aim to complete each workout session in about " /\ l[3] = " minutes."

DayIdx(L) == {i \in 1..Len(L) : IsDayLine(L[i])}
ExerciseIdx(L) == {i \in 1..Len(L) : IsExerciseLine(L[i])}
CoolDownIdx(L) == {i \in 1..Len(L) : IsCoolDownLine(L[i])}
AdvisoryIdx(L) == {i \in 1..Len(L) : IsAdvisoryLine(L[i])}

(***************************************************************************)
(* The terms the properties are stated in.                                 *)
(***************************************************************************)
Tiers == <<"beginner", "intermediate", "advanced">>
TierRank(t) == CHOOSE i \in 1..3 : Tiers[i] = t

FitnessOk(req) == req.fitness_level \in {"beginner", "intermediate", "advanced"}
DaysOk(req) == req.days_per_week \in 1..7
EquipmentOk(req) == req.equipment \in {"full gym", "basic dumbbells", "no equipment"}
ValidRequest(req) == FitnessOk(req) /\ DaysOk(req) /\ EquipmentOk(req)

\* the catalog entry of a tier for a request
Cell(req, t) ==
  IF req.body_weight_only THEN BodyWeightExercises[t] ELSE Exercises[t][req.equipment]

\* the entries of the tiers up to the given one, in tier order
Cumulative(req, t) == Flatten([i \in 1..TierRank(t) |-> Cell(req, Tiers[i])])

IsPrefix(a, b) == Len(a) <= Len(b) /\ SubSeq(b, 1, Len(a)) = a

\* the goals of the model that contain "weight" or "muscle" in some letter case
MatchingGoals == { <<"w","e","i","g","h","t">>, <<"M","u","S","c","L","e">>,
                   <<"L","o","s","e"," ","W","E","I","G","H","T">> }

F == frame[1]
ResultLines == SplitLines(F.result)
Returned == F.pc = "done"
ReturnedPlan == Returned /\ ValidRequest(F.args)

(***************************************************************************)
(* C1: when two or more of fitness_level, days_per_week and equipment are  *)
(* invalid, the result is exactly the message of the earliest invalid one  *)
(* in that order.                                                          *)
(***************************************************************************)
InvalidCount(req) ==
  (IF FitnessOk(req) THEN 0 ELSE 1) + (IF DaysOk(req) THEN 0 ELSE 1)
    + (IF EquipmentOk(req) THEN 0 ELSE 1)

C1_FirstFailingCheck ==
  (Returned /\ InvalidCount(F.args) >= 2) =>
     F.result = (IF ~FitnessOk(F.args) THEN InvalidFitnessLevel ELSE InvalidDayCount)

C1_Witness ==
  /\ Returned /\ FitnessOk(F.args) /\ ~DaysOk(F.args) /\ ~EquipmentOk(F.args)
  /\ F.result = InvalidDayCount

(***************************************************************************)
(* C2: the result is one of the three validation messages, and begins with *)
(* "Invalid", exactly when one of the three fields is invalid; it is then  *)
(* the bare message, with no header and no day section; every other        *)
(* result is a plan text that does not begin with "Invalid".               *)
(***************************************************************************)
C2_ErrorIffInvalid ==
  Returned =>
    /\ (F.result \in {InvalidFitnessLevel, InvalidDayCount, InvalidEquipment})
          <=> ~ValidRequest(F.args)
    /\ (F.result # <<>> /\ F.result[1] = "Invalid") <=> ~ValidRequest(F.args)
    /\ ~ValidRequest(F.args) =>
          /\ Len(ResultLines) = 1
          /\ DayIdx(ResultLines) = {}
          /\ ~FitnessOk(F.args) => F.result = InvalidFitnessLevel
          /\ (FitnessOk(F.args) /\ ~DaysOk(F.args)) => F.result = InvalidDayCount
          /\ (FitnessOk(F.args) /\ DaysOk(F.args)) => F.result = InvalidEquipment
    /\ ValidRequest(F.args) => ResultLines[1] = SplitLines(Header(F.args))[1]

C2_Witness ==
  /\ Returned /\ F.args.days_per_week = 8 /\ FitnessOk(F.args) /\ EquipmentOk(F.args)
  /\ F.result = InvalidDayCount

(***************************************************************************)
(* C3: no exercise name appears twice within one day's section.            *)
(***************************************************************************)
C3_NoNameTwiceInADay ==
  ReturnedPlan =>
    LET L == ResultLines
    IN \A d \in DayIdx(L) : \A a, b \in 1..5 :
         (a # b /\ IsExerciseLine(L[d + a]) /\ IsExerciseLine(L[d + b]))
            => L[d + a][2] # L[d + b][2]

(***************************************************************************)
(* C4: a plan has exactly days_per_week day sections, numbered 1 ..        *)
(* days_per_week in increasing order, each listing exactly                 *)
(* min(5, pool size) exercise lines followed by exactly one cool-down line.*)
(***************************************************************************)
PerDay(req) == Min(5, Len(Cumulative(req, req.fitness_level)))

C4_DaySections ==
  ReturnedPlan =>
    LET L == ResultLines
        k == PerDay(F.args)
        n == F.args.days_per_week
    IN /\ Cardinality(DayIdx(L)) = n
       /\ Cardinality(ExerciseIdx(L)) = n * k
       /\ Cardinality(CoolDownIdx(L)) = n
       /\ \A d \in 1..n : \E i \in DayIdx(L) :
            /\ L[i][2] = ToString(d)
            /\ Cardinality({j \in DayIdx(L) : j < i}) = d - 1
            /\ \A a \in 1..k : IsExerciseLine(L[i + a])
            /\ IsCoolDownLine(L[i + k + 1])

C4_Witness ==
  /\ ReturnedPlan /\ F.args.days_per_week = 7
  /\ Cardinality(DayIdx(ResultLines)) = 7

(***************************************************************************)
(* C5: the pool is cumulative by tier, in tier order and catalog order,    *)
(* without deduplication; it contains the pool of every lower tier, is at  *)
(* least as long, and is never empty.                                      *)
(***************************************************************************)
C5_CumulativePool ==
  ReturnedPlan =>
    /\ Deref(F) = Cumulative(F.args, F.args.fitness_level)
    /\ Len(Deref(F)) >= 1
    /\ \A i \in 1..TierRank(F.args.fitness_level) :
          /\ IsPrefix(Cumulative(F.args, Tiers[i]), Deref(F))
          /\ Len(Cumulative(F.args, Tiers[i])) <= Len(Deref(F))

C5_Witness ==
  /\ ReturnedPlan /\ F.args.fitness_level = "advanced" /\ F.args.body_weight_only
  /\ Len(Deref(F)) = 21

(***************************************************************************)
(* C6: every exercise line of a plan is annotated "3 sets of 10-15 reps"   *)
(* when the goal contains "weight" or "muscle" in any letter case, and     *)
(* "3 sets of 30-60 seconds" for every other goal.                         *)
(***************************************************************************)
C6_RepsByGoal ==
  ReturnedPlan =>
    LET L == ResultLines
    IN \A i \in ExerciseIdx(L) :
         L[i][3] = ": 3 sets of "
           /\ L[i][4] = (IF F.args.goal \in MatchingGoals THEN "10-15 reps"
                                                          ELSE "30-60 seconds")

C6_Witness ==
  /\ ReturnedPlan /\ F.args.goal = <<"M","u","S","c","L","e">>
  /\ LET L == ResultLines IN \E i \in ExerciseIdx(L) : L[i][4] = "10-15 reps"

(***************************************************************************)
(* C7 as stated: a plan ends with exactly one advisory line naming the     *)
(* duration when a duration was supplied (not None), and has none          *)
(* otherwise.                                                              *)
(***************************************************************************)
EndsWithAdvisory(L, n) ==
  /\ AdvisoryIdx(L) = {Len(L)}
  /\ L[Len(L)][2] = ToString(n)

C7_AdvisoryWhenSupplied ==
  ReturnedPlan =>
    LET L == ResultLines
    IN IF F.args.duration # <<>>
       THEN EndsWithAdvisory(L, F.args.duration[1])
       ELSE AdvisoryIdx(L) = {}

(***************************************************************************)
(* C7 amended: a plan ends with exactly one advisory line naming the       *)
(* duration when a duration other than 0 was supplied, and has none when   *)
(* the duration is None or 0.                                              *)
(***************************************************************************)
C7_AdvisoryWhenNonZero ==
  ReturnedPlan =>
    LET L == ResultLines
    IN IF F.args.duration # <<>> /\ F.args.duration[1] # 0
       THEN EndsWithAdvisory(L, F.args.duration[1])
       ELSE AdvisoryIdx(L) = {}

C7_Witness ==
  /\ ReturnedPlan /\ F.args.duration = <<45>>
  /\ ResultLines[Len(ResultLines)][2] = "45"

(***************************************************************************)
(* C8: every exercise listed in a plan comes from the catalog entries of   *)
(* the request (its equipment, or the body-weight catalog) at tiers at or  *)
(* below the requested tier.                                               *)
(***************************************************************************)
AllowedExercises(req) ==
  UNION { {Cell(req, Tiers[i])[j] : j \in 1..Len(Cell(req, Tiers[i]))}
          : i \in 1..TierRank(req.fitness_level) }

C8_OnlyPoolExercises ==
  ReturnedPlan =>
    LET L == ResultLines
        allowed == AllowedExercises(F.args)
    IN \A i \in ExerciseIdx(L) : L[i][2] \in allowed

C8_Witness ==
  /\ ReturnedPlan /\ F.args.fitness_level = "beginner" /\ ~F.args.body_weight_only
  /\ F.args.equipment = "no equipment" /\ F.args.days_per_week = 3
  /\ Cardinality(ExerciseIdx(ResultLines)) = 15

(***************************************************************************)
(* C9: calls are independent under any interleaving: the catalogs of a     *)
(* call keep their fixed contents at every step of every call, its pool is *)
(* the one its own arguments select, and what it returns fits its own      *)
(* arguments, whatever the other caller does.                              *)
(***************************************************************************)
FitsOwnArguments(f) ==
  IF ValidRequest(f.args)
  THEN LET L == SplitLines(f.result)
           allowed == AllowedExercises(f.args)
       IN /\ L[1] = SplitLines(Header(f.args))[1]
          /\ Cardinality(DayIdx(L)) = f.args.days_per_week
          /\ Cardinality(ExerciseIdx(L)) = f.args.days_per_week * PerDay(f.args)
          /\ \A i \in ExerciseIdx(L) : L[i][2] \in allowed
  ELSE f.result \in {InvalidFitnessLevel, InvalidDayCount, InvalidEquipment}

C9_CallsIndependent ==
  \A c \in Callers :
    frame[c].pc # "idle" =>
      /\ frame[c].exercises = Exercises
      /\ frame[c].body_weight_exercises = BodyWeightExercises
      /\ ValidRequest(frame[c].args) =>
            Deref(frame[c]) = Cumulative(frame[c].args, frame[c].args.fitness_level)
      /\ frame[c].pc = "done" => FitsOwnArguments(frame[c])

C9_Witness ==
  /\ frame[1].pc = "done" /\ ValidRequest(frame[1].args)
  /\ frame[1].args.fitness_level = "beginner"
  /\ frame[2].pc = "sample" /\ frame[2].sample.i = 3
  /\ frame[2].sample.pool # Deref(frame[2])
  /\ frame[2].args # frame[1].args

(***************************************************************************)
(* C10: with body_weight_only true and the other fields valid, a call      *)
(* naming a recognized equipment returns what it would return, from the    *)
(* same generator state, had it named any other recognized equipment: the  *)
(* same text, pool and other locals, the same generator state afterwards,  *)
(* a header that reads "body weight only"; a call naming an unrecognized   *)
(* equipment returns InvalidEquipment.                                     *)
(***************************************************************************)
C10_EquipmentIgnoredWhenBodyWeightOnly ==
  [][ (frame[1].pc = "idle" /\ frame'[1].pc = "done" /\ frame'[1].args.body_weight_only
         /\ FitnessOk(frame'[1].args) /\ DaysOk(frame'[1].args))
      => IF EquipmentOk(frame'[1].args)
         THEN /\ \A e \in {"full gym", "basic dumbbells", "no equipment"}
                           \ {frame'[1].args.equipment} :
                   [CreateWorkoutPlan([frame'[1].args EXCEPT !.equipment = e], rng)
                      EXCEPT !.frame.args = frame'[1].args]
                     = [frame |-> frame'[1], rng |-> rng']
              /\ LET h == SplitLines(frame'[1].result)[1]
                 IN /\ \E i \in 1..Len(h) : h[i] = "body weight only"
                    /\ \A i \in 1..Len(h) : h[i] # frame'[1].args.equipment
         ELSE frame'[1].result = InvalidEquipment ]_vars

C10_Witness ==
  /\ ReturnedPlan /\ F.args.body_weight_only /\ F.args.equipment = "full gym"
  /\ F.args.fitness_level = "advanced"
  /\ Cardinality(DayIdx(ResultLines)) = F.args.days_per_week

====
